---- MODULE Spec2Model ----
(***************************************************************************)
(* The two MCP gateway servers of llm_quality_radar.                       *)
(*                                                                         *)
(*   servers/playwright_mcp_server.js  (the "full" server)                 *)
(*   servers/simple_mcp_server.js      (the "simple" server)               *)
(*                                                                         *)
(* A behaviour of Spec is a run of one of the two; server says which.      *)

(* Each server is one Node.js process: a handler runs without preemption   *)
(* up to its next await, so every action below is one such run-to-         *)
(* suspension step of a handler, an event listener or a timer callback.    *)
(***************************************************************************)
EXTENDS Integers, Sequences, FiniteSets, TLC

\* ----------------------------------------------------------------- bounds
MaxConns == 2        \* /mcp connections the full server accepts in a run
MaxStreams == 1      \* /mcp connections the simple server accepts in a run
MaxExec == 2         \* POST /execute exchanges the simple server receives
MaxBeats == 1        \* heartbeat ticks observed per simple /mcp connection
MaxEngineTools == 1  \* largest _toolHandlers map the engine hands back
MaxScenarios == 2    \* longest test_scenarios array given to generateTestCode

ConnIds == 1..MaxConns
StreamIds == 1..MaxStreams
ExecIds == 1..MaxExec

\* ------------------------------------------------------- JSON level values
Null == "null"            \* the JSON value null
Missing == "missing"      \* a key JSON.stringify leaves out (undefined)
\* The handler's local mcpServer before createMCPServer() has resolved, and a
\* connection object as createConnection resolves it (with or without the
\* .server property line 163 looks for).
NoSession == [live |-> FALSE, server |-> FALSE]
Session(hasServer) == [live |-> TRUE, server |-> hasServer]

InternalErrorCode == -32603
HeartbeatMs == 30000

\* A descriptor is represented by its name and the set of keys it carries.
Descriptor(name, keys) == [name |-> name, keys |-> keys]

PLAYWRIGHT_TOOLS ==
  << Descriptor("browser_navigate", {"name", "description", "inputSchema"}),
     Descriptor("page_screenshot", {"name", "description", "inputSchema"}),
     Descriptor("element_click", {"name", "description", "inputSchema"}),
     Descriptor("page_content", {"name", "description", "inputSchema"}) >>

ToolNames == {PLAYWRIGHT_TOOLS[i].name : i \in 1..Len(PLAYWRIGHT_TOOLS)}

\* ------------------------------------------------------------------ frames
\* One SSE frame: `data: ${JSON.stringify(message)}\n\n`.  id is Missing
\* when the message object has no id key, Null when the key holds null.
Frame(method, id, hasResult, hasError, code, tools) ==
  [method |-> method, id |-> id, hasResult |-> hasResult,
   hasError |-> hasError, code |-> code, tools |-> tools]

IsResponse(f) == f.method = Missing

VARIABLES
  server,            \* which script runs: "full" | "simple" | "functions"
  transport,         \* per /mcp connection: "none" | "open" (headers sent)
                     \*   | "closed" (req 'close') | "ended" (res.end())
  out,               \* per /mcp connection: frames passed to res.write, in order
  closeListener,     \* per /mcp connection: req.on('close', ...) registered
  signalled,         \* SIGINT/SIGTERM handled: server.close() called
  exited,            \* process.exit(0) ran
  \* --- full server
  sdkLoaded,         \* SSEServerTransport was imported at module load
  connectedClients,  \* the Map: clientId -> {res, mcpServer, connected}
  pc,                \* per connection: where the /mcp handler is suspended
  mcpServer,         \* per connection: the handler's local const mcpServer
  removals,          \* per connection: times delete() removed its entry
  health,            \* clients field of the last /health reply
  \* --- simple server
  heartbeatInterval, \* per stream: "none" | "armed" | "cleared"
  exec,              \* per /execute exchange: its state, request and replies
  toolsReported,     \* tools field of the last simple /health reply
  \* --- endpoints and failures outside the /execute exchanges
  catalog,           \* the PLAYWRIGHT_TOOLS array as the process holds it
  heartbeatFailures, \* per stream: heartbeat writes that threw
  info,              \* the last / or /info reply
  toolsReply,        \* the last /tools or /mcp-simple reply
  \* --- full server, per connection
  factoryCalls,      \* times the handler has called createMCPServer()
  lastWrite,         \* when the last frame was written (0: none yet), in
                     \*   ticks counted from the run that registers the entry
  \* --- functions/api/test-generator.js
  gen                \* one call of generateTestCode

connVars == <<transport, out, closeListener>>
procVars == <<server, signalled, exited>>
fullVars == <<sdkLoaded, connectedClients, pc, mcpServer, removals, health>>
simpleVars == <<heartbeatInterval, exec, toolsReported>>
channelVars == <<catalog, heartbeatFailures, info, toolsReply>>
sessionVars == <<factoryCalls, lastWrite>>
serverVars ==
  <<connVars, procVars, fullVars, simpleVars, channelVars, sessionVars>>
vars ==
  <<connVars, procVars, fullVars, simpleVars, channelVars, sessionVars, gen>>

\* ---------------------------------------------------------------- helpers
\* A write that puts the frame ahead of the frames already handed over.
WritePrepends(o, c, f) == [o EXCEPT ![c] = <<f>> \o @]

\* res.write(`data: ...`) on the response of connection c.
Write(o, c, f) == [o EXCEPT ![c] = Append(@, f)]

\* playwright_mcp_server.js sendMCPNotification: {jsonrpc, method, params}.
sendMCPNotification(o, c, method, tools) ==
  Write(o, c, Frame(method, Missing, FALSE, FALSE, 0, tools))

\* playwright_mcp_server.js sendMCPResponse: {jsonrpc, id, result}; the result
\* key is dropped by JSON.stringify when result is undefined.  The server has
\* no call site for it.
sendMCPResponse(o, c, id, result) ==
  Write(o, c, Frame(Missing, id, result # Missing, FALSE, 0, <<>>))

\* A sendMCPError that also sets a result key on the message.
sendMCPErrorWithResult(o, c, id) ==
  Write(o, c, Frame(Missing, id, TRUE, TRUE, InternalErrorCode, <<>>))

\* A sendMCPError that fills a missing id with one of its own making.
sendMCPErrorInventedId(o, c, id) ==
  Write(o, c, Frame(Missing, IF id = Null THEN "server-1" ELSE id,
                    FALSE, TRUE, InternalErrorCode, <<>>))

\* playwright_mcp_server.js sendMCPError: {jsonrpc, id, error: {code, ...}}.
sendMCPError(o, c, id) ==
  Write(o, c, Frame(Missing, id, FALSE, TRUE, InternalErrorCode, <<>>))

\* connectedClients.set(clientId, {res, mcpServer, connected: true, ...})
MapSet(m, k, v) == [x \in DOMAIN m \cup {k} |-> IF x = k THEN v ELSE m[x]]
\* connectedClients.delete(clientId)
MapDelete(m, k) == [x \in DOMAIN m \ {k} |-> m[x]]
MapHas(m, k) == k \in DOMAIN m
MapSize(m) == Cardinality(DOMAIN m)
EmptyMap == [x \in {} |-> TRUE]

\* Keys a live engine's _toolHandlers map may hold (names of @playwright/mcp
\* tools); the engine is external, so only how many it hands back varies.
EngineToolNames ==
  <<"browser_close", "browser_resize", "browser_click", "browser_snapshot">>

\* A fallback list whose descriptors also carry an inputSchema.
FallbackToolsWithSchema(n) ==
  [i \in 1..n |-> Descriptor(EngineToolNames[i],
                             {"name", "description", "inputSchema"})]

\* Array.from(tools.keys()).map(name => ({name, description})) over a
\* _toolHandlers map of n entries: n descriptors without inputSchema.
FallbackTools(n) ==
  [i \in 1..n |-> Descriptor(EngineToolNames[i], {"name", "description"})]

\* The object connectedClients.set stores: {res, mcpServer, connected: true,
\* timestamp: new Date()}.  Time is counted per connection in ticks of the
\* clock new Date() reads, the registering run being tick RegistrationTick; a
\* run resumed after a later await may fall in the same tick or in a later
\* one.
RegistrationTick == 1

\* An entry stored before its timestamp is filled in.
EntryWithoutTimestamp(c, session) ==
  [res |-> c, mcpServer |-> session, connected |-> TRUE, timestamp |-> 0]

Entry(c, session) ==
  [res |-> c, mcpServer |-> session, connected |-> TRUE,
   timestamp |-> RegistrationTick]

\* No call of generateTestCode is in progress in the server processes.
NoCall == [pc |-> "none"]

\* ------------------------------------------------------------ full server
InitFull ==
  /\ server = "full"
  /\ transport = [c \in ConnIds |-> "none"]
  /\ out = [c \in ConnIds |-> <<>>]
  /\ closeListener = [c \in ConnIds |-> FALSE]
  /\ signalled = FALSE
  /\ exited = FALSE
  /\ sdkLoaded \in BOOLEAN
  /\ connectedClients = EmptyMap
  /\ pc = [c \in ConnIds |-> "idle"]
  /\ mcpServer = [c \in ConnIds |-> NoSession]
  /\ removals = [c \in ConnIds |-> 0]
  /\ health = [served |-> FALSE, clients |-> 0]
  /\ heartbeatInterval = <<>>
  /\ exec = <<>>
  /\ toolsReported = 0
  /\ catalog = <<>>
  /\ heartbeatFailures = <<>>
  /\ info = [served |-> FALSE, clients |-> 0]
  /\ toolsReply = [endpoint |-> "none", tools |-> <<>>]
  /\ factoryCalls = [c \in ConnIds |-> 0]
  /\ lastWrite = [c \in ConnIds |-> 0]
  /\ gen = NoCall

\* A handler that forgets the opening notification.
SendInitializedDropped(o, c) == o

\* sendMCPNotification(res, 'notifications/initialized', {})
SendInitialized(o, c) ==
  sendMCPNotification(o, c, "notifications/initialized", <<>>)

\* res.headersSent: true once setupSSEHeaders called res.writeHead.
HeadersSent(c) == transport[c] # "none"

\* A catch block that reports nothing to the client.
McpCatchSilent(c) ==
  /\ UNCHANGED <<out, transport>>
  /\ connectedClients' = IF MapHas(connectedClients, c)
                           THEN MapDelete(connectedClients, c)
                           ELSE connectedClients
  /\ removals' = IF MapHas(connectedClients, c)
                   THEN [removals EXCEPT ![c] = @ + 1]
                   ELSE removals

\* A catch block that keeps the failed client in the map (degraded entry).
McpCatchKeepsEntry(c) ==
  /\ out' = sendMCPError(out, c, Null)
  /\ UNCHANGED <<transport, removals>>
  /\ connectedClients' =
       MapSet(connectedClients, c, Entry(c, NoSession))

\* A catch block that empties the whole registry instead of deleting its own
\* entry.
McpCatchClearsRegistry(c) ==
  /\ IF HeadersSent(c)
       THEN /\ out' = sendMCPError(out, c, Null)
            /\ UNCHANGED transport
       ELSE /\ transport' = [transport EXCEPT ![c] = "ended"]
            /\ UNCHANGED out
  /\ connectedClients' = EmptyMap
  /\ removals' = IF MapHas(connectedClients, c)
                   THEN [removals EXCEPT ![c] = @ + 1]
                   ELSE removals

\* The catch block of the /mcp handler.  With the headers not sent it would
\* answer 500 and end the response; they are sent from setupSSEHeaders on, so
\* the error goes out as an SSE frame with id null and the response stays
\* open.
McpCatch(c) ==
  /\ IF HeadersSent(c)
       THEN /\ out' = sendMCPError(out, c, Null)
            /\ UNCHANGED transport
       ELSE /\ transport' = [transport EXCEPT ![c] = "ended"]
            /\ UNCHANGED out
  /\ connectedClients' = IF MapHas(connectedClients, c)
                           THEN MapDelete(connectedClients, c)
                           ELSE connectedClients
  /\ removals' = IF MapHas(connectedClients, c)
                   THEN [removals EXCEPT ![c] = @ + 1]
                   ELSE removals

\* req.on('close', ...) at the end of the try block.  A 'close' event that
\* was emitted before this line finds no listener and is lost.
RegisterClose(c) == closeListener' = [closeListener EXCEPT ![c] = TRUE]

\* A handler that registers its entry, without a session yet, before it
\* calls createMCPServer().
McpAcceptRegisters(c) ==
  /\ server = "full" /\ ~exited /\ ~signalled
  /\ pc[c] = "idle"
  /\ transport' = [transport EXCEPT ![c] = "open"]
  /\ connectedClients' = MapSet(connectedClients, c, Entry(c, NoSession))
  /\ pc' = [pc EXCEPT ![c] = "awaitFactory"]
  /\ factoryCalls' = [factoryCalls EXCEPT ![c] = @ + 1]
  /\ UNCHANGED <<channelVars, lastWrite, gen>>
  /\ UNCHANGED <<out, closeListener, procVars, sdkLoaded, mcpServer, removals,
                 health, simpleVars>>

\* A server that takes the next /mcp request only once no handler is
\* suspended on the engine.
McpAcceptSerialised(c) ==
  /\ server = "full" /\ ~exited /\ ~signalled
  /\ pc[c] = "idle"
  /\ \A d \in DOMAIN pc : pc[d] \in {"idle", "done"}
  /\ transport' = [transport EXCEPT ![c] = "open"]
  /\ pc' = [pc EXCEPT ![c] = "awaitFactory"]
  /\ factoryCalls' = [factoryCalls EXCEPT ![c] = @ + 1]
  /\ UNCHANGED <<channelVars, lastWrite, gen>>
  /\ UNCHANGED <<out, closeListener, procVars, sdkLoaded, connectedClients,
                 mcpServer, removals, health, simpleVars>>

\* GET /mcp arrives: randomUUID, setupSSEHeaders, then the handler suspends
\* in await createMCPServer().
McpAccept(c) ==
  /\ server = "full" /\ ~exited /\ ~signalled
  /\ pc[c] = "idle"
  /\ transport' = [transport EXCEPT ![c] = "open"]
  /\ pc' = [pc EXCEPT ![c] = "awaitFactory"]
  /\ factoryCalls' = [factoryCalls EXCEPT ![c] = @ + 1]
  /\ UNCHANGED <<channelVars, lastWrite, gen>>
  /\ UNCHANGED <<out, closeListener, procVars, sdkLoaded, connectedClients,
                 mcpServer, removals, health, simpleVars>>

\* createConnection resolved: register, send initialized, then either start
\* the SDK transport (suspends in await connect) or send the empty list.
FactoryResolves(c) ==
  /\ server = "full" /\ ~exited
  /\ pc[c] = "awaitFactory"
  /\ \E hasServer \in BOOLEAN :
       LET session == Session(hasServer)
           o1 == SendInitialized(out, c)
       IN /\ mcpServer' = [mcpServer EXCEPT ![c] = session]
          /\ connectedClients' =
               MapSet(connectedClients, c, Entry(c, session))
          /\ lastWrite' = [lastWrite EXCEPT ![c] = RegistrationTick]
          /\ IF sdkLoaded /\ hasServer
               THEN /\ out' = o1
                    /\ pc' = [pc EXCEPT ![c] = "awaitConnect"]
                    /\ UNCHANGED closeListener
               ELSE /\ out' = sendMCPNotification(o1, c, "tools/list", <<>>)
                    /\ RegisterClose(c)
                    /\ pc' = [pc EXCEPT ![c] = "done"]
  /\ UNCHANGED <<channelVars, factoryCalls, gen>>
  /\ UNCHANGED <<transport, procVars, sdkLoaded, removals, health, simpleVars>>

\* A handler that calls createMCPServer() again, without telling the client,
\* for as long as it rejects.
FactoryRejectsRetries(c) ==
  /\ server = "full" /\ ~exited
  /\ pc[c] = "awaitFactory"
  /\ factoryCalls[c] < 3
  /\ factoryCalls' = [factoryCalls EXCEPT ![c] = @ + 1]
  /\ UNCHANGED <<connVars, procVars, fullVars, simpleVars>>
  /\ UNCHANGED <<channelVars, lastWrite, gen>>

\* A handler that swallows the rejection and carries on without a session:
\* it registers the client and negotiates an empty tool list.
FactoryRejectsDegrades(c) ==
  /\ server = "full" /\ ~exited
  /\ pc[c] = "awaitFactory"
  /\ connectedClients' = MapSet(connectedClients, c, Entry(c, NoSession))
  /\ out' = sendMCPNotification(SendInitialized(out, c), c, "tools/list", <<>>)
  /\ lastWrite' = [lastWrite EXCEPT ![c] = RegistrationTick]
  /\ RegisterClose(c)
  /\ pc' = [pc EXCEPT ![c] = "done"]
  /\ UNCHANGED <<channelVars, factoryCalls, gen>>
  /\ UNCHANGED <<transport, procVars, sdkLoaded, mcpServer, removals, health,
                 simpleVars>>

\* createConnection rejected: createMCPServer rethrows, the catch block runs.
FactoryRejects(c) ==
  /\ server = "full" /\ ~exited
  /\ pc[c] = "awaitFactory"
  /\ McpCatch(c)
  /\ lastWrite' = [lastWrite EXCEPT ![c] = RegistrationTick]
  /\ pc' = [pc EXCEPT ![c] = "done"]
  /\ UNCHANGED <<channelVars, factoryCalls, gen>>
  /\ UNCHANGED <<closeListener, procVars, sdkLoaded, mcpServer, health,
                 simpleVars>>

\* mcpServer.server.connect(transport) resolved: nothing more is written.
ConnectResolves(c) ==
  /\ server = "full" /\ ~exited
  /\ pc[c] = "awaitConnect"
  /\ RegisterClose(c)
  /\ pc' = [pc EXCEPT ![c] = "done"]
  /\ UNCHANGED <<channelVars, sessionVars, gen>>
  /\ UNCHANGED <<transport, out, procVars, sdkLoaded, connectedClients,
                 mcpServer, removals, health, simpleVars>>

\* An inner catch that refreshes the entry's timestamp when it writes.
ConnectRejectsTouches(c) ==
  /\ server = "full" /\ ~exited
  /\ pc[c] = "awaitConnect"
  /\ \E n \in 0..MaxEngineTools, readThrows \in BOOLEAN :
       out' = sendMCPNotification(out, c, "tools/list",
                                  IF readThrows THEN <<>> ELSE FallbackTools(n))
  /\ \E later \in BOOLEAN :
       lastWrite' = [lastWrite EXCEPT ![c] = IF later THEN @ + 1 ELSE @]
  /\ connectedClients' =
       IF MapHas(connectedClients, c)
         THEN MapSet(connectedClients, c,
                     [connectedClients[c] EXCEPT !.timestamp = lastWrite'[c]])
         ELSE connectedClients
  /\ RegisterClose(c)
  /\ pc' = [pc EXCEPT ![c] = "done"]
  /\ UNCHANGED <<channelVars, factoryCalls, gen>>
  /\ UNCHANGED <<transport, procVars, sdkLoaded, mcpServer, removals, health,
                 simpleVars>>

\* new SSEServerTransport or connect threw: the inner catch sends the names
\* of _toolHandlers (or of an empty Map), or the empty list when reading
\* them throws.
ConnectRejects(c) ==
  /\ server = "full" /\ ~exited
  /\ pc[c] = "awaitConnect"
  /\ \E n \in 0..MaxEngineTools, readThrows \in BOOLEAN :
       out' = sendMCPNotification(out, c, "tools/list",
                                  IF readThrows THEN <<>> ELSE FallbackTools(n))
  /\ \E later \in BOOLEAN :
       lastWrite' = [lastWrite EXCEPT ![c] = IF later THEN @ + 1 ELSE @]
  /\ RegisterClose(c)
  /\ pc' = [pc EXCEPT ![c] = "done"]
  /\ UNCHANGED <<channelVars, factoryCalls, gen>>
  /\ UNCHANGED <<transport, procVars, sdkLoaded, connectedClients, mcpServer,
                 removals, health, simpleVars>>

\* The request's 'close' event (client disconnect, network failure).  It is
\* emitted once; the listener, if registered by then, deletes the entry.
TransportClose(c) ==
  /\ server = "full" /\ ~exited
  /\ transport[c] = "open"
  /\ transport' = [transport EXCEPT ![c] = "closed"]
  /\ IF closeListener[c]
       THEN /\ connectedClients' = MapDelete(connectedClients, c)
            /\ removals' = IF MapHas(connectedClients, c)
                             THEN [removals EXCEPT ![c] = @ + 1]
                             ELSE removals
       ELSE UNCHANGED <<connectedClients, removals>>
  /\ UNCHANGED <<channelVars, sessionVars, gen>>
  /\ UNCHANGED <<out, closeListener, procVars, sdkLoaded, pc, mcpServer,
                 health, simpleVars>>

\* A /health that first sweeps the entries of closed connections.
HealthSweeps ==
  /\ server = "full" /\ ~exited /\ ~signalled
  /\ connectedClients' =
       [c \in {d \in DOMAIN connectedClients : transport[d] = "open"}
          |-> connectedClients[c]]
  /\ health' = [served |-> TRUE, clients |-> MapSize(connectedClients')]
  /\ UNCHANGED <<channelVars, sessionVars, gen>>
  /\ UNCHANGED <<connVars, procVars, sdkLoaded, pc, mcpServer, removals,
                 simpleVars>>

\* GET /health: clients is connectedClients.size.
Health ==
  /\ server = "full" /\ ~exited /\ ~signalled
  /\ health' = [served |-> TRUE, clients |-> MapSize(connectedClients)]
  /\ UNCHANGED <<channelVars, sessionVars, gen>>
  /\ UNCHANGED <<connVars, procVars, sdkLoaded, connectedClients, pc,
                 mcpServer, removals, simpleVars>>

\* GET / or /info: stats.connectedClients is connectedClients.size.
Info ==
  /\ server = "full" /\ ~exited /\ ~signalled
  /\ \E url \in {"/", "/info"} :
       info' = [served |-> TRUE, clients |-> MapSize(connectedClients)]
  /\ UNCHANGED <<connVars, procVars, fullVars, simpleVars>>
  /\ UNCHANGED <<catalog, heartbeatFailures, toolsReply>>
  /\ UNCHANGED <<sessionVars, gen>>

\* SIGINT / SIGTERM: server.close(cb).  The listening socket is closed; open
\* connections are left alone.
Signal ==
  /\ ~exited /\ ~signalled
  /\ signalled' = TRUE
  /\ UNCHANGED <<channelVars, sessionVars, gen>>
  /\ UNCHANGED <<connVars, server, exited, fullVars, simpleVars>>

\* The server's 'close' event, emitted once no connection is open: the
\* callback calls process.exit(0).
ServerClosed ==
  /\ signalled /\ ~exited
  /\ \A c \in DOMAIN transport : transport[c] # "open"
  /\ \A e \in DOMAIN exec : exec[e].state # "receiving"
  /\ exited' = TRUE
  /\ UNCHANGED <<channelVars, sessionVars, gen>>
  /\ UNCHANGED <<connVars, server, signalled, fullVars, simpleVars>>

NextFull ==
  \/ \E c \in ConnIds : McpAccept(c)
  \/ \E c \in ConnIds : FactoryResolves(c)
  \/ \E c \in ConnIds : FactoryRejects(c)
  \/ \E c \in ConnIds : ConnectResolves(c)
  \/ \E c \in ConnIds : ConnectRejects(c)
  \/ \E c \in ConnIds : TransportClose(c)
  \/ Health
  \/ Signal
  \/ ServerClosed


\* ---------------------------------------------------------- simple server
\* Bodies a client may post to /execute, by what JSON.parse makes of them:
\* text that is no JSON, the literal null, a scalar, or an object whose id
\* and tool keys are present or not.
RequestIds == {"7"}
RequestTools == {"browser_navigate", "no_such_tool"}
Body(kind, id, tool) == [kind |-> kind, id |-> id, tool |-> tool]
Bodies ==
  {Body("garbage", Missing, Missing), Body("null", Missing, Missing),
   Body("scalar", Missing, Missing)}
  \cup {Body("object", i, t) : i \in RequestIds \cup {Missing},
                               t \in RequestTools \cup {Missing}}
NoBody == Body("none", Missing, Missing)

\* JSON.parse(body): throws SyntaxError on text that is no JSON.
JSONparse(body) ==
  IF body.kind = "garbage" THEN [threw |-> TRUE, value |-> NoBody]
                           ELSE [threw |-> FALSE, value |-> body]

\* request.tool: TypeError on null, undefined on a scalar or a missing key.
ReadTool(request) ==
  IF request.kind = "null" THEN [threw |-> TRUE, value |-> Missing]
                           ELSE [threw |-> FALSE, value |-> request.tool]

Reply(status, tool, outcome, hasResult, hasError) ==
  [status |-> status, id |-> Missing, tool |-> tool, outcome |-> outcome,
   hasResult |-> hasResult, hasError |-> hasError]

\* An 'end' listener whose catch block also runs after the success reply.
ExecuteRepliesTwice(body) ==
  <<Reply(200, body.tool, "success", TRUE, FALSE),
    Reply(400, Missing, Missing, FALSE, TRUE)>>

\* An 'end' listener without the try/catch: a body JSON.parse throws on is
\* never answered.
ExecuteRepliesNoCatch(body) ==
  IF JSONparse(body).threw \/ ReadTool(JSONparse(body).value).threw
    THEN <<>>
    ELSE <<Reply(200, body.tool, "success", TRUE, FALSE)>>

\* The body of the 'end' listener of POST /execute: the replies it writes.
ExecuteReplies(body) ==
  LET parsed == JSONparse(body)
      tool == ReadTool(parsed.value)
  IN IF parsed.threw \/ tool.threw
       THEN <<Reply(400, Missing, Missing, FALSE, TRUE)>>
       ELSE <<Reply(200, tool.value, "success", TRUE, FALSE)>>

InitSimple ==
  /\ server = "simple"
  /\ transport = [s \in StreamIds |-> "none"]
  /\ out = [s \in StreamIds |-> <<>>]
  /\ closeListener = [s \in StreamIds |-> FALSE]
  /\ signalled = FALSE
  /\ exited = FALSE
  /\ sdkLoaded = FALSE
  /\ connectedClients = EmptyMap
  /\ pc = <<>>
  /\ mcpServer = <<>>
  /\ removals = <<>>
  /\ health = [served |-> FALSE, clients |-> 0]
  /\ heartbeatInterval = [s \in StreamIds |-> "none"]
  /\ exec = [e \in ExecIds |-> [state |-> "idle", request |-> NoBody,
                                replies |-> <<>>]]
  /\ toolsReported = 0
  /\ catalog = PLAYWRIGHT_TOOLS
  /\ heartbeatFailures = [s \in StreamIds |-> 0]
  /\ info = [served |-> FALSE, tools |-> 0]
  /\ toolsReply = [endpoint |-> "none", tools |-> <<>>]
  /\ factoryCalls = <<>>
  /\ lastWrite = <<>>
  /\ gen = NoCall

Beats(s) == Cardinality({i \in 1..Len(out[s]) : out[s][i].method = "heartbeat"})

\* GET /mcp on the simple server: one synchronous run that writes the three
\* opening frames, arms the heartbeat timer and registers the listeners.
SimpleMcpAccept(s) ==
  /\ server = "simple" /\ ~exited /\ ~signalled
  /\ transport[s] = "none"
  /\ transport' = [transport EXCEPT ![s] = "open"]
  /\ out' = sendMCPNotification(
              sendMCPNotification(
                SendInitialized(out, s),
                s, "server/info", catalog),
              s, "tools/list", catalog)
  /\ heartbeatInterval' = [heartbeatInterval EXCEPT ![s] = "armed"]
  /\ closeListener' = [closeListener EXCEPT ![s] = TRUE]
  /\ UNCHANGED <<channelVars, sessionVars, gen>>
  /\ UNCHANGED <<procVars, fullVars, exec, toolsReported>>

\* A heartbeat that waits for the /execute exchanges in flight to finish.
HeartbeatTickBlocked(s) ==
  /\ server = "simple" /\ ~exited
  /\ heartbeatInterval[s] = "armed"
  /\ Beats(s) < MaxBeats
  /\ \A e \in DOMAIN exec : exec[e].state # "receiving"
  /\ out' = sendMCPNotification(out, s, "heartbeat", <<>>)
  /\ UNCHANGED <<channelVars, sessionVars, gen>>
  /\ UNCHANGED <<transport, closeListener, procVars, fullVars, simpleVars>>

\* The setInterval callback, every HeartbeatMs.
HeartbeatTick(s) ==
  /\ server = "simple" /\ ~exited
  /\ heartbeatInterval[s] = "armed"
  /\ Beats(s) < MaxBeats
  /\ out' = sendMCPNotification(out, s, "heartbeat", <<>>)
  /\ UNCHANGED <<channelVars, sessionVars, gen>>
  /\ UNCHANGED <<transport, closeListener, procVars, fullVars, simpleVars>>

\* A 'close' listener that leaves the heartbeat timer running.
StreamCloseKeepsTimer(s) ==
  /\ server = "simple" /\ ~exited
  /\ transport[s] = "open"
  /\ transport' = [transport EXCEPT ![s] = "closed"]
  /\ UNCHANGED <<channelVars, sessionVars, gen>>
  /\ UNCHANGED <<out, closeListener, procVars, fullVars, simpleVars>>

\* req 'close': clearInterval(heartbeatInterval).
StreamClose(s) ==
  /\ server = "simple" /\ ~exited
  /\ transport[s] = "open"
  /\ transport' = [transport EXCEPT ![s] = "closed"]
  /\ heartbeatInterval' = [heartbeatInterval EXCEPT ![s] = "cleared"]
  /\ UNCHANGED <<channelVars, sessionVars, gen>>
  /\ UNCHANGED <<out, closeListener, procVars, fullVars, exec, toolsReported>>

\* POST /execute arrives: the handler registers 'data' and 'end' listeners
\* and returns.  Exchanges are numbered in arrival order.
ExecuteReceive(e) ==
  /\ server = "simple" /\ ~exited /\ ~signalled
  /\ exec[e].state = "idle"
  /\ IF e = 1 THEN TRUE ELSE exec[e - 1].state # "idle"
  /\ exec' = [exec EXCEPT ![e].state = "receiving"]
  /\ UNCHANGED <<channelVars, sessionVars, gen>>
  /\ UNCHANGED <<connVars, procVars, fullVars, heartbeatInterval, toolsReported>>

\* 'end': the whole body is in; parse it and reply.
ExecuteEnd(e) ==
  /\ server = "simple" /\ ~exited
  /\ exec[e].state = "receiving"
  /\ \E body \in Bodies :
       exec' = [exec EXCEPT ![e] = [state |-> "replied", request |-> body,
                                    replies |-> ExecuteReplies(body)]]
  /\ UNCHANGED <<channelVars, sessionVars, gen>>
  /\ UNCHANGED <<connVars, procVars, fullVars, heartbeatInterval, toolsReported>>

\* The client goes away before the body is complete: 'end' never fires.
ExecuteAbort(e) ==
  /\ server = "simple" /\ ~exited
  /\ exec[e].state = "receiving"
  /\ exec' = [exec EXCEPT ![e].state = "aborted"]
  /\ UNCHANGED <<channelVars, sessionVars, gen>>
  /\ UNCHANGED <<connVars, procVars, fullVars, heartbeatInterval, toolsReported>>

\* GET /health on the simple server: tools is PLAYWRIGHT_TOOLS.length.
SimpleHealth ==
  /\ server = "simple" /\ ~exited /\ ~signalled
  /\ toolsReported' = Len(catalog)
  /\ UNCHANGED <<channelVars, sessionVars, gen>>
  /\ UNCHANGED <<connVars, procVars, fullVars, heartbeatInterval, exec>>

\* A catch block that logs the failure and leaves the timer running.
HeartbeatWriteFailsKeepsTimer(s) ==
  /\ server = "simple" /\ ~exited
  /\ heartbeatInterval[s] = "armed"
  /\ heartbeatFailures[s] < 2
  /\ heartbeatFailures' = [heartbeatFailures EXCEPT ![s] = @ + 1]
  /\ UNCHANGED <<connVars, procVars, fullVars, simpleVars>>
  /\ UNCHANGED <<catalog, info, toolsReply>>
  /\ UNCHANGED <<sessionVars, gen>>

\* The setInterval callback when res.write throws: the catch block logs and
\* calls clearInterval(heartbeatInterval); nothing is written, nothing closed.
HeartbeatWriteFails(s) ==
  /\ server = "simple" /\ ~exited
  /\ heartbeatInterval[s] = "armed"
  /\ heartbeatFailures' = [heartbeatFailures EXCEPT ![s] = @ + 1]
  /\ heartbeatInterval' = [heartbeatInterval EXCEPT ![s] = "cleared"]
  /\ UNCHANGED <<connVars, procVars, fullVars, exec, toolsReported>>
  /\ UNCHANGED <<catalog, info, toolsReply>>
  /\ UNCHANGED <<sessionVars, gen>>

\* req 'error': clearInterval(heartbeatInterval).
StreamError(s) ==
  /\ server = "simple" /\ ~exited
  /\ transport[s] = "open"
  /\ heartbeatInterval' = [heartbeatInterval EXCEPT ![s] = "cleared"]
  /\ UNCHANGED <<connVars, procVars, fullVars, exec, toolsReported>>
  /\ UNCHANGED <<channelVars, sessionVars, gen>>

\* A /tools that reorders the shared array in place before replying.
ToolsReordersInPlace ==
  /\ server = "simple" /\ ~exited /\ ~signalled
  /\ catalog' = [i \in 1..Len(catalog) |-> catalog[Len(catalog) + 1 - i]]
  /\ toolsReply' = [endpoint |-> "/tools", tools |-> catalog']
  /\ UNCHANGED <<connVars, procVars, fullVars, simpleVars>>
  /\ UNCHANGED <<heartbeatFailures, info>>
  /\ UNCHANGED <<sessionVars, gen>>

\* GET /tools: {tools: PLAYWRIGHT_TOOLS}.
Tools ==
  /\ server = "simple" /\ ~exited /\ ~signalled
  /\ toolsReply' = [endpoint |-> "/tools", tools |-> catalog]
  /\ UNCHANGED <<connVars, procVars, fullVars, simpleVars>>
  /\ UNCHANGED <<catalog, heartbeatFailures, info>>
  /\ UNCHANGED <<sessionVars, gen>>

\* GET /mcp-simple: {status: 'connected', ..., tools: PLAYWRIGHT_TOOLS, ...}.
McpSimple ==
  /\ server = "simple" /\ ~exited /\ ~signalled
  /\ toolsReply' = [endpoint |-> "/mcp-simple", tools |-> catalog]
  /\ UNCHANGED <<connVars, procVars, fullVars, simpleVars>>
  /\ UNCHANGED <<catalog, heartbeatFailures, info>>
  /\ UNCHANGED <<sessionVars, gen>>

\* GET / or /info on the simple server: tools is PLAYWRIGHT_TOOLS.length.
SimpleInfo ==
  /\ server = "simple" /\ ~exited /\ ~signalled
  /\ \E url \in {"/", "/info"} :
       info' = [served |-> TRUE, tools |-> Len(catalog)]
  /\ UNCHANGED <<connVars, procVars, fullVars, simpleVars>>
  /\ UNCHANGED <<catalog, heartbeatFailures, toolsReply>>
  /\ UNCHANGED <<sessionVars, gen>>

NextSimple ==
  \/ \E s \in StreamIds : SimpleMcpAccept(s)
  \/ \E s \in StreamIds : HeartbeatTick(s)
  \/ \E s \in StreamIds : StreamClose(s)
  \/ \E e \in ExecIds : ExecuteReceive(e)
  \/ \E e \in ExecIds : ExecuteEnd(e)
  \/ \E e \in ExecIds : ExecuteAbort(e)
  \/ SimpleHealth
  \/ Signal
  \/ ServerClosed

\* ------------------------------------------------------------ specification
Init == InitFull \/ InitSimple

Next == NextFull \/ NextSimple

Spec == Init /\ [][Next]_vars

\* Either server with every endpoint and event except the POST /execute
\* exchanges, which share no state with the channels and are explored in Spec.
\* Signal and ServerClosed, which serve both servers, come with NextFull.
NextChannels ==
  \/ NextFull
  \/ Info
  \/ \E s \in StreamIds : SimpleMcpAccept(s)
  \/ \E s \in StreamIds : HeartbeatTick(s)
  \/ \E s \in StreamIds : HeartbeatWriteFails(s)
  \/ \E s \in StreamIds : StreamError(s)
  \/ \E s \in StreamIds : StreamClose(s)
  \/ SimpleHealth
  \/ SimpleInfo
  \/ Tools
  \/ McpSimple

SpecChannels == Init /\ [][NextChannels]_vars

\* The event loop runs every callback that is ready: the server's 'close'
\* callback, timer callbacks, and the continuation of a handler whose awaited
\* engine call has settled.  The engine is taken to settle every call; what
\* clients do (connect, disconnect, finish a body) is not forced.
Fairness ==
  /\ WF_vars(ServerClosed)
  /\ \A c \in ConnIds : WF_vars(FactoryResolves(c) \/ FactoryRejects(c))
  /\ \A c \in ConnIds : WF_vars(ConnectResolves(c) \/ ConnectRejects(c))
  /\ \A s \in StreamIds : WF_vars(HeartbeatTick(s))

FairSpec == Spec /\ Fairness

FairChannels == SpecChannels /\ Fairness

\* --------------------------------------- functions/api/test-generator.js
\* An element of test_scenarios as the request body gave it: JSON null, or an
\* object with an action and a selector ("" stands for a missing selector).
NullScenario ==
  [isNull |-> TRUE, action |-> "", selector |-> "", optimized |-> FALSE]
Scenario(action, selector) ==
  [isNull |-> FALSE, action |-> action, selector |-> selector,
   optimized |-> FALSE]
ScenarioValues ==
  {NullScenario, Scenario("navigate", ""), Scenario("navigate", "#start"),
   Scenario("click", "#go")}
ScenarioLists == UNION {[1..n -> ScenarioValues] : n \in 0..MaxScenarios}

\* options as the caller passes it (options || []): an array, or another
\* truthy JSON value: a string has includes but no join, a number neither.
OptionKinds == {"array", "string", "number"}

\* calculatePriority reads scenario.action: a TypeError on null.
calculatePriorityThrows(scenario) == scenario.isNull

\* adkIntegration.optimizeScenarios: every scenario gets optimized: true; when
\* the map callback throws, its own catch returns the scenarios it was given.
optimizeScenarios(scenarios) ==
  IF \E i \in 1..Len(scenarios) : calculatePriorityThrows(scenarios[i])
    THEN [optimized_scenarios |-> scenarios, error |-> TRUE]
    ELSE [optimized_scenarios |->
            [i \in 1..Len(scenarios) |->
               [scenarios[i] EXCEPT !.optimized = TRUE]],
          error |-> FALSE]

\* generatePythonTestStep reads scenario.action (a TypeError on null) and, for
\* a navigate step with a falsy selector, the name url, which is not in its
\* scope (a ReferenceError).
generatePythonTestStepThrows(scenario) ==
  \/ scenario.isNull
  \/ scenario.action = "navigate" /\ scenario.selector = ""

\* generateJSTestStep: the same reads.
generateJSTestStepThrows(scenario) ==
  \/ scenario.isNull
  \/ scenario.action = "navigate" /\ scenario.selector = ""

\* generatePythonCode: options.includes(...), then test_scenarios.map over
\* generatePythonTestStep.
generatePythonCodeThrows(options, scenarios) ==
  \/ options = "number"
  \/ \E i \in 1..Len(scenarios) : generatePythonTestStepThrows(scenarios[i])

generateJavaScriptCodeThrows(options, scenarios) ==
  \/ options = "number"
  \/ \E i \in 1..Len(scenarios) : generateJSTestStepThrows(scenarios[i])

\* generateTestConfig: options.includes(...), then scenario.action of every
\* scenario.
generateTestConfigThrows(options, scenarios) ==
  \/ options = "number"
  \/ \E i \in 1..Len(scenarios) : scenarios[i].isNull

\* generateExecutionGuide: options.join(', ').
generateExecutionGuideThrows(options) == options # "array"

\* Steps 3 to 6 of generateTestCode, in order: the generation steps that
\* completed and the one that threw ("none" when all four completed).
GenerationSteps(options, scenarios) ==
  IF generatePythonCodeThrows(options, scenarios)
    THEN [completed |-> 0, threw |-> "python"]
  ELSE IF generateJavaScriptCodeThrows(options, scenarios)
    THEN [completed |-> 1, threw |-> "javascript"]
  ELSE IF generateTestConfigThrows(options, scenarios)
    THEN [completed |-> 2, threw |-> "config"]
  ELSE IF generateExecutionGuideThrows(options)
    THEN [completed |-> 3, threw |-> "guide"]
  ELSE [completed |-> 4, threw |-> "none"]

\* What the promise of generateTestCode settles with.
generateFallbackCode ==
  [settled |-> "returned", success |-> FALSE, fallback |-> TRUE,
   website_analysis |-> FALSE]
GeneratedResult ==
  [settled |-> "returned", success |-> TRUE, fallback |-> FALSE,
   website_analysis |-> TRUE]
Rejection ==
  [settled |-> "rejected", success |-> FALSE, fallback |-> FALSE,
   website_analysis |-> FALSE]
Pending ==
  [settled |-> "pending", success |-> FALSE, fallback |-> FALSE,
   website_analysis |-> FALSE]

\* A generateTestCode without its try/catch: what a step throws rejects the
\* promise.
SettleWithoutCatch(threw) ==
  IF threw = "none" THEN GeneratedResult ELSE Rejection

\* The try/catch of generateTestCode: the result object when nothing threw,
\* generateFallbackCode(params) otherwise.
Settle(threw) ==
  IF threw = "none" THEN GeneratedResult ELSE generateFallbackCode

InitGenerator ==
  /\ server = "functions"
  /\ transport = <<>>
  /\ out = <<>>
  /\ closeListener = <<>>
  /\ signalled = FALSE
  /\ exited = FALSE
  /\ sdkLoaded = FALSE
  /\ connectedClients = EmptyMap
  /\ pc = <<>>
  /\ mcpServer = <<>>
  /\ removals = <<>>
  /\ health = [served |-> FALSE, clients |-> 0]
  /\ heartbeatInterval = <<>>
  /\ exec = <<>>
  /\ toolsReported = 0
  /\ catalog = PLAYWRIGHT_TOOLS
  /\ heartbeatFailures = <<>>
  /\ info = [served |-> FALSE, tools |-> 0]
  /\ toolsReply = [endpoint |-> "none", tools |-> <<>>]
  /\ factoryCalls = <<>>
  /\ lastWrite = <<>>
  /\ \E scenarios \in ScenarioLists, options \in OptionKinds :
       gen = [pc |-> "called", test_scenarios |-> scenarios,
              options |-> options, optimisation |-> "none",
              used |-> <<>>, completed |-> 0, threw |-> "none",
              result |-> Pending]

\* generateTestCode(params) is called with the object the /generate handler
\* builds: it destructures params and suspends in await analyzeWebsite(...).
GenerateTestCode ==
  /\ server = "functions"
  /\ gen.pc = "called"
  /\ gen' = [gen EXCEPT !.pc = "awaitAnalysis"]
  /\ UNCHANGED serverVars

\* The analysis resolved: optimizeTestScenarios is called and the function
\* suspends in its await.
AnalysisResolves ==
  /\ server = "functions"
  /\ gen.pc = "awaitAnalysis"
  /\ gen' = [gen EXCEPT !.pc = "awaitOptimise"]
  /\ UNCHANGED serverVars

\* The analysis rejected: the catch block returns generateFallbackCode(params).
\* (analyzeWebsite as it is written catches its own errors; a rejection is
\* what the ADK call it is to make can produce.)
AnalysisRejects ==
  /\ server = "functions"
  /\ gen.pc = "awaitAnalysis"
  /\ gen' = [gen EXCEPT !.pc = "done", !.threw = "analysis",
                        !.result = Settle("analysis")]
  /\ UNCHANGED serverVars

\* The rest of the try block from the scenarios optimizeTestScenarios
\* returned: the four generation steps, then the result or the fallback.
Generate(optimisation, scenarios) ==
  LET steps == GenerationSteps(gen.options, scenarios)
  IN gen' = [gen EXCEPT !.pc = "done", !.optimisation = optimisation,
                        !.used = scenarios,
                        !.completed = steps.completed,
                        !.threw = steps.threw,
                        !.result = Settle(steps.threw)]

\* optimizeScenarios resolved: optimizeTestScenarios returns
\* optimization.optimized_scenarios || scenarios (an array is truthy).
OptimiseResolves ==
  /\ server = "functions"
  /\ gen.pc = "awaitOptimise"
  /\ LET optimization == optimizeScenarios(gen.test_scenarios)
     IN Generate(IF optimization.error THEN "failed" ELSE "optimised",
                 optimization.optimized_scenarios)
  /\ UNCHANGED serverVars

\* optimizeScenarios rejected: the catch of optimizeTestScenarios returns the
\* scenarios it was given.
OptimiseRejects ==
  /\ server = "functions"
  /\ gen.pc = "awaitOptimise"
  /\ Generate("rejected", gen.test_scenarios)
  /\ UNCHANGED serverVars

NextGenerator ==
  \/ GenerateTestCode
  \/ AnalysisResolves
  \/ AnalysisRejects
  \/ OptimiseResolves
  \/ OptimiseRejects

SpecGenerator == InitGenerator /\ [][NextGenerator]_vars

\* ------------------------------------------------------------------ claims
Replied(e) == exec[e].state = "replied"
KnownToolRequest(e) ==
  /\ Replied(e)
  /\ exec[e].request.kind = "object"
  /\ exec[e].request.tool \in ToolNames
UnknownToolRequest(e) ==
  /\ Replied(e)
  /\ exec[e].request.kind = "object"
  /\ exec[e].request.tool \notin ToolNames \cup {Missing}

C2_UnknownToolYieldsError ==
  \A e \in DOMAIN exec :
    UnknownToolRequest(e)
      => \A i \in 1..Len(exec[e].replies) :
           exec[e].replies[i].hasError /\ ~exec[e].replies[i].hasResult

\* C4 as stated: the simple server holds no automation session, so every
\* tool invocation is answered with an error, never with a success.
C4_NoSessionYieldsUnavailable ==
  \A e \in DOMAIN exec :
    KnownToolRequest(e)
      => \A i \in 1..Len(exec[e].replies) :
           /\ exec[e].replies[i].hasError
           /\ exec[e].replies[i].outcome # "success"

\* Connections of the full server by how their /mcp handler ended.
FactoryFailed(c) == pc[c] = "done" /\ mcpServer[c] = NoSession
Negotiated(c) == pc[c] = "done" /\ mcpServer[c] # NoSession
Methods(c) == [i \in 1..Len(out[c]) |-> out[c][i].method]
FailedOpen == {c \in DOMAIN pc : FactoryFailed(c) /\ transport[c] = "open"}

C6_DisconnectRemovesEntry ==
  \A c \in DOMAIN pc :
    (transport[c] = "closed" /\ pc[c] = "done")
      => ~MapHas(connectedClients, c) /\ removals[c] <= 1

\* C7 as stated: a connection that is registered and open when the shutdown
\* signal has been handled is eventually closed and unregistered, and the
\* process exits.
C7_ShutdownCompletes ==
  \A c \in ConnIds :
    (IF server = "full"
       THEN signalled /\ MapHas(connectedClients, c) /\ transport[c] = "open"
       ELSE FALSE)
      ~> (IF server = "full"
            THEN exited /\ transport[c] # "open"
                        /\ ~MapHas(connectedClients, c)
            ELSE TRUE)

ResponseFrames(c) == {i \in 1..Len(out[c]) : IsResponse(out[c][i])}

\* C8: every Response frame written on a streaming channel, and every reply
\* body of /execute, holds exactly one of result and error.
C8_ResultXorError ==
  /\ \A c \in DOMAIN out : \A i \in ResponseFrames(c) :
       out[c][i].hasResult # out[c][i].hasError
  /\ \A e \in DOMAIN exec : \A i \in 1..Len(exec[e].replies) :
       exec[e].replies[i].hasResult # exec[e].replies[i].hasError

\* C8 witness: a Response frame has been written on a streaming channel.
C8_Witness ==
  \E c \in DOMAIN out : \E i \in ResponseFrames(c) : out[c][i].hasError

Malformed(e) == Replied(e) /\ exec[e].request.kind = "garbage"
ErrorReply == Reply(400, Missing, Missing, FALSE, TRUE)
SuccessReply(tool) == Reply(200, tool, "success", TRUE, FALSE)

\* C11: a body that is no JSON is rejected on its own exchange with one 400
\* reply and nothing else is touched: the process exits only on a signal, the
\* server still accepts the next exchange, and every well-formed request
\* completed after a malformed one has its 200 reply.
C11_MalformedRejectedLocally ==
  server = "simple" =>
    /\ exited => signalled
    /\ \A e \in DOMAIN exec :
         Malformed(e) =>
           /\ exec[e].replies = <<ErrorReply>>
           /\ (e + 1 \in DOMAIN exec /\ exec[e + 1].state = "idle"
                 /\ ~signalled)
                => ENABLED ExecuteReceive(e + 1)
           /\ \A f \in DOMAIN exec :
                (f > e /\ Replied(f) /\ exec[f].request.kind = "object")
                  => exec[f].replies = <<SuccessReply(exec[f].request.tool)>>

\* C11 witness: a malformed body was rejected and the next exchange, a
\* well-formed request, was answered with its result.
C11_Witness ==
  /\ server = "simple" /\ ~exited
  /\ Malformed(1) /\ exec[1].replies = <<ErrorReply>>
  /\ KnownToolRequest(2) /\ exec[2].replies[1].status = 200

\* C12 as stated: every exchange whose body was fully received has exactly
\* one reply: a 200 with a result when the body decodes to a request object,
\* an error status with an error body for every other body.
C12_OneReplyByDecoding ==
  \A e \in DOMAIN exec :
    Replied(e) =>
      /\ Len(exec[e].replies) = 1
      /\ IF exec[e].request.kind = "object"
           THEN exec[e].replies[1].status = 200 /\ exec[e].replies[1].hasResult
           ELSE exec[e].replies[1].status >= 400 /\ exec[e].replies[1].hasError

\* -------------------------------------------------------------------- C13
\* A connection the server treats as established: on the full server it is
\* registered, its handler has finished and its transport is open; on the
\* simple server its transport is open and nothing has failed on it.
Active(c) ==
  IF server = "full"
    THEN c \in DOMAIN pc /\ MapHas(connectedClients, c) /\ pc[c] = "done"
         /\ transport[c] = "open"
    ELSE c \in DOMAIN heartbeatInterval /\ transport[c] = "open"
         /\ heartbeatInterval[c] = "armed"
ActiveWithBeats(c, k) == Active(c) /\ Beats(c) = k

C14_WriteErrorCloses ==
  \A s \in DOMAIN heartbeatFailures :
    heartbeatFailures[s] > 0 => transport[s] # "open"

\* C14 as amended: the step in which a heartbeat write fails cancels that
\* stream's timer and does nothing else (no frame, no close of the
\* transport); it is the stream's only failed write, and no frame is written
\* to that stream afterwards.
C14_WriteErrorStopsTimer ==
  [][\A s \in DOMAIN heartbeatFailures :
       /\ heartbeatFailures'[s] # heartbeatFailures[s]
            => /\ heartbeatFailures[s] = 0 /\ heartbeatFailures'[s] = 1
               /\ heartbeatInterval'[s] = "cleared"
               /\ transport'[s] = transport[s] /\ out'[s] = out[s]
       /\ heartbeatFailures[s] > 0
            => /\ out'[s] = out[s]
               /\ heartbeatInterval'[s] = "cleared"]_vars

\* C14 witness: a stream that had received a heartbeat is still open after a
\* later heartbeat write failed on it.
C14_Witness ==
  \E s \in DOMAIN heartbeatFailures :
    /\ heartbeatFailures[s] = 1 /\ Beats(s) > 0
    /\ transport[s] = "open" /\ heartbeatInterval[s] = "cleared"

\* -------------------------------------------------------------------- C15
\* Connections of the full server that hold a session and are still open.
EstablishedCount ==
  Cardinality({c \in DOMAIN pc : mcpServer[c].live /\ transport[c] = "open"})

\* C15 as stated: the client count a /health or /info reply carries is the
\* number of connections that are established and open when it is served.
C15_CountIsActive ==
  [][server = "full" =>
       /\ health' # health => health'.clients = EstablishedCount
       /\ info' # info => info'.clients = EstablishedCount]_vars

\* -------------------------------------------------------------------- C16
\* A step that serves /health, / or /info on either server.
ReportStep ==
  \/ health' # health \/ info' # info \/ toolsReported' # toolsReported
  \/ Health \/ Info \/ SimpleHealth \/ SimpleInfo

\* C16: a step that serves /health, / or /info changes nothing but the reply
\* it writes: the registry, every connection's session, handler position,
\* transport, frames, listener and timer, the catalog and the process state
\* are as they were, whatever the other connections are in the middle of.
C16_ReportsChangeNothing ==
  [][ReportStep =>
       /\ UNCHANGED <<connectedClients, mcpServer, pc, removals, sdkLoaded>>
       /\ UNCHANGED <<connVars, procVars, catalog>>
       /\ UNCHANGED <<heartbeatInterval, heartbeatFailures, exec>>]_vars

\* C16 witness: /health and /info were both served on the full server with
\* one connection registered while another was still awaiting its session.
C16_Witness ==
  /\ server = "full" /\ health.served /\ info.served
  /\ health.clients = 1 /\ info.clients = 1
  /\ MapSize(connectedClients) = 1
  /\ \E c \in DOMAIN pc : pc[c] = "awaitFactory"

\* -------------------------------------------------------------------- C17
\* C17: on the simple server the catalog the process holds is, in every
\* state, the array declared at startup, with pairwise-distinct names; every
\* /tools reply, /mcp-simple reply and tools/list notification carries those
\* descriptors in that order.
C17_CatalogFixed ==
  server = "simple" =>
    /\ catalog = PLAYWRIGHT_TOOLS
    /\ Cardinality(ToolNames) = Len(PLAYWRIGHT_TOOLS)
    /\ toolsReply.endpoint # "none" => toolsReply.tools = PLAYWRIGHT_TOOLS
    /\ \A s \in DOMAIN out : \A i \in 1..Len(out[s]) :
         out[s][i].method = "tools/list" => out[s][i].tools = PLAYWRIGHT_TOOLS

\* C17 witness: a tools/list notification was written on a stream and a
\* /mcp-simple reply was sent after /health, /info and heartbeats.
C17_Witness ==
  /\ server = "simple" /\ toolsReply.endpoint = "/mcp-simple"
  /\ info.served /\ toolsReported > 0
  /\ \E s \in DOMAIN out :
       /\ Beats(s) > 0
       /\ \E i \in 1..Len(out[s]) : out[s][i].method = "tools/list"

\* -------------------------------------------------------------------- C18
\* What a client sees when it connects: the methods of the notifications
\* written at connect, and the key sets of the descriptors listed to it.
Opening(c) == SelectSeq(Methods(c), LAMBDA m : m # "heartbeat")
ListedKeys(c) ==
  UNION {{out[c][i].tools[k].keys : k \in 1..Len(out[c][i].tools)} :
           i \in {j \in 1..Len(out[c]) : out[c][j].method = "tools/list"}}
SimpleOpening == <<"notifications/initialized", "server/info", "tools/list">>
SimpleFields == {"name", "description", "inputSchema"}
FullFields == {"name", "description"}
Connected(c) ==
  IF server = "full" THEN Negotiated(c) ELSE transport[c] # "none"

\* C18 as stated: a connection set up on either server has received the same
\* sequence of notification methods, and every descriptor listed to it
\* carries name, description and inputSchema.
C18_SameStreamingShape ==
  \A c \in DOMAIN out :
    Connected(c) => /\ Opening(c) = SimpleOpening
                    /\ ListedKeys(c) \subseteq {SimpleFields}

\* C18 as amended: the simple server always opens with initialized,
\* server/info, tools/list and lists descriptors that carry name, description
\* and inputSchema; the full server opens with initialized followed by at
\* most one tools/list, never sends server/info, and the descriptors it lists
\* carry name and description only.
C18_ShapesDiffer ==
  \A c \in DOMAIN out :
    Connected(c) =>
      IF server = "simple"
        THEN Opening(c) = SimpleOpening /\ ListedKeys(c) = {SimpleFields}
        ELSE /\ Opening(c) \in {<<"notifications/initialized">>,
                                <<"notifications/initialized", "tools/list">>}
             /\ ListedKeys(c) \subseteq {FullFields}

\* C18 witness: a full-server connection was set up and was sent a tools/list
\* that lists a descriptor.
C18_Witness ==
  /\ server = "full"
  /\ \E c \in DOMAIN out :
       /\ Connected(c) /\ ListedKeys(c) = {FullFields}
       /\ Opening(c) = <<"notifications/initialized", "tools/list">>

\* -------------------------------------------------------------------- C19
\* A step of connection c's own handler, listener or timer that may write.
WriterStep(c) ==
  \/ McpAccept(c) \/ FactoryResolves(c) \/ FactoryRejects(c)
  \/ ConnectResolves(c) \/ ConnectRejects(c)
  \/ SimpleMcpAccept(c) \/ HeartbeatTick(c)

FailureStep(c) ==
  \/ FactoryRejects(c) \/ ConnectRejects(c) \/ TransportClose(c)
  \/ HeartbeatWriteFails(c) \/ StreamError(c) \/ StreamClose(c)

\* What the server holds for connection d: its registry entry if any, its
\* session and handler position, its transport, frames, listener and timer.
ConnectionState(d) ==
  <<transport[d], out[d], closeListener[d],
    IF server = "full"
      THEN <<pc[d], mcpServer[d], removals[d],
             IF MapHas(connectedClients, d)
               THEN <<connectedClients[d]>> ELSE <<>> >>
      ELSE <<heartbeatInterval[d], heartbeatFailures[d]>> >>

Suspended(c) == pc[c] \in {"awaitFactory", "awaitConnect"}

\* C21: while a handler of the full server is suspended on an engine call,
\* every other handler is as ready to run as without it: /health and /info
\* are answered and a new /mcp request is accepted (until shutdown has
\* begun), another connection's settled engine call resumes its handler, and
\* another connection's close event is handled.
C21_StalledHandlerBlocksNobody ==
  server = "full" =>
    \A c \in DOMAIN pc :
      Suspended(c) =>
        /\ ~signalled => ENABLED Health /\ ENABLED Info
        /\ \A d \in DOMAIN pc \ {c} :
             /\ (pc[d] = "idle" /\ ~signalled) => ENABLED McpAccept(d)
             /\ (pc[d] = "awaitFactory" /\ ~exited)
                  => ENABLED FactoryResolves(d) /\ ENABLED FactoryRejects(d)
             /\ (pc[d] = "awaitConnect" /\ ~exited)
                  => ENABLED ConnectResolves(d) /\ ENABLED ConnectRejects(d)
             /\ (transport[d] = "open" /\ ~exited)
                  => ENABLED TransportClose(d)

\* C21 witness: with one handler still suspended in createMCPServer(),
\* another connection was accepted, set up and registered, and /health
\* reported it.
C21_Witness ==
  /\ server = "full"
  /\ \E c, d \in DOMAIN pc :
       /\ pc[c] = "awaitFactory" /\ transport[c] = "open"
       /\ Negotiated(d) /\ MapHas(connectedClients, d)
       /\ health.served /\ health.clients = 1

\* -------------------------------------------------------------------- C22
\* C22: the handler of a connection calls the session factory at most twice,
\* and a connection whose factory call failed has been told so: the last
\* frame written to it is an error response, or its response was ended.
C22_FactoryAttemptsBounded ==
  \A c \in DOMAIN factoryCalls :
    /\ factoryCalls[c] <= 2
    /\ FactoryFailed(c)
         => \/ transport[c] = "ended"
            \/ /\ Len(out[c]) >= 1
               /\ IsResponse(out[c][Len(out[c])])
               /\ out[c][Len(out[c])].hasError

\* C22 witness: a connection's only factory call failed and the failure was
\* written to it.
C22_Witness ==
  \E c \in DOMAIN factoryCalls :
    /\ FactoryFailed(c) /\ factoryCalls[c] = 1
    /\ Len(out[c]) = 1 /\ out[c][1].hasError

\* -------------------------------------------------------------------- C23
\* The engine session created for connection c is open: createConnection
\* resolved for it, and the server has no call that closes a session.
SessionOpen(c) == mcpServer[c].live

\* C23 as stated: a connection whose transport has closed and whose handler
\* has finished holds no open engine session, and a step that removes a
\* registry entry leaves that connection's session closed.
C23_SessionClosedBeforeRemoval ==
  [][\A c \in DOMAIN pc :
       /\ (transport'[c] = "closed" /\ pc'[c] = "done") => ~SessionOpen(c)'
       /\ (MapHas(connectedClients, c) /\ ~MapHas(connectedClients', c))
            => ~SessionOpen(c)']_vars

\* -------------------------------------------------------------------- C24
\* C24: on the simple server the step that handles a stream's 'close' or
\* 'error' event leaves its heartbeat timer cancelled, a closed stream never
\* has an armed timer, and no frame is written to a stream once it has
\* closed.
C24_NoHeartbeatAfterClose ==
  [][\A s \in DOMAIN heartbeatInterval :
       /\ (StreamClose(s) \/ StreamError(s))
            => heartbeatInterval'[s] = "cleared"
       /\ transport'[s] = "closed" => heartbeatInterval'[s] = "cleared"
       /\ transport[s] = "closed" => out'[s] = out[s]]_vars

\* C24 witness: a stream closed before any heartbeat was due, and no
\* heartbeat has been written to it.
C24_Witness ==
  \E s \in DOMAIN heartbeatInterval :
    /\ transport[s] = "closed" /\ heartbeatInterval[s] = "cleared"
    /\ Beats(s) = 0 /\ heartbeatFailures[s] = 0 /\ Len(out[s]) = 3

C26_ClosedIsTerminal ==
  [][\A c \in DOMAIN transport :
       transport[c] = "closed"
         => /\ transport'[c] = "closed"
            /\ out'[c] = out[c]
            /\ server = "full"
                 => (MapHas(connectedClients', c)
                       => MapHas(connectedClients, c))]_vars

\* -------------------------------------------------------------------- C27
\* C27: in every state a /health or /info handler can read the registry in,
\* each entry is complete: it holds its own connection's response, a session
\* the factory returned, the connected flag and a timestamp that was set.
C27_EntriesComplete ==
  \A c \in DOMAIN connectedClients :
    /\ connectedClients[c].res = c
    /\ connectedClients[c].mcpServer = mcpServer[c]
    /\ connectedClients[c].mcpServer.live
    /\ connectedClients[c].connected
    /\ connectedClients[c].timestamp >= RegistrationTick

\* C27 witness: /health read the registry while a handler that had just
\* registered its entry was suspended in the SDK connect.
C27_Witness ==
  /\ server = "full" /\ health.served /\ health.clients >= 1
  /\ \E c \in DOMAIN pc :
       pc[c] = "awaitConnect" /\ MapHas(connectedClients, c)

\* -------------------------------------------------------------------- C28
\* C28 as stated: the entry's timestamp follows the frames, so a registered
\* connection's timestamp is never older than the last write on it.
C28_TimestampTracksWrites ==
  \A c \in DOMAIN connectedClients :
    connectedClients[c].timestamp >= lastWrite[c]

\* C28 as the code has it: the timestamp is the registration time.  No step
\* changes it while the entry stays registered, whatever is written.
C28_TimestampSetOnce ==
  [][\A c \in DOMAIN connectedClients :
       MapHas(connectedClients', c)
         => connectedClients'[c].timestamp
              = connectedClients[c].timestamp]_vars

\* C28 witness: a registered connection whose last frame was written after
\* the registering run, with the timestamp still the registration time.
C28_Witness ==
  \E c \in DOMAIN connectedClients :
    /\ lastWrite[c] > RegistrationTick
    /\ connectedClients[c].timestamp = RegistrationTick
    /\ Len(out[c]) >= 2

\* -------------------------------------------------------------------- C29
\* C29: on the full server a client id is registered only once its session
\* was created: the handler of a registered client is past the factory call,
\* the entry's session is one the factory returned, and a connection whose
\* handler ended in the catch block has no entry.
C29_RegisteredOnlyWithSession ==
  server = "full"
    => \A c \in DOMAIN pc :
         /\ MapHas(connectedClients, c)
              => /\ pc[c] \in {"awaitConnect", "done"}
                 /\ connectedClients[c].mcpServer # NoSession
                 /\ connectedClients[c].mcpServer.live
         /\ FactoryFailed(c) => ~MapHas(connectedClients, c)

\* C29 witness: one handler has finished in the catch block and its client
\* has no entry, while another client is registered with its session.
C29_Witness ==
  /\ server = "full"
  /\ \E c, d \in DOMAIN pc :
       /\ FactoryFailed(c) /\ ~MapHas(connectedClients, c)
       /\ out[c][Len(out[c])].hasError
       /\ MapHas(connectedClients, d) /\ pc[d] = "awaitConnect"

\* -------------------------------------------------------------------- C30
\* C30: the promise of generateTestCode never rejects.  When the analysis or
\* a generation step threw it holds the fallback result (success false,
\* config.fallback true); it holds success true only when all four generation
\* steps completed, on scenarios none of which makes a step throw; and when
\* only the optimisation failed the original scenarios were used and the
\* result is a success.
C30_AlwaysSettlesWithResult ==
  server = "functions" /\ gen.pc = "done"
    => /\ gen.result.settled = "returned"
       /\ gen.threw # "none"
            => ~gen.result.success /\ gen.result.fallback
       /\ gen.result.success
            => /\ gen.completed = 4 /\ gen.threw = "none"
               /\ ~gen.result.fallback
               /\ gen.options = "array"
               /\ \A i \in 1..Len(gen.used) :
                    ~generatePythonTestStepThrows(gen.used[i])
       /\ gen.optimisation \in {"failed", "rejected"}
            => /\ gen.used = gen.test_scenarios
               /\ gen.threw = "none" => gen.result.success

\* C30 witness: the scenarios were optimised, then generatePythonCode threw
\* on a navigate step without a selector and the fallback was returned.
C30_Witness ==
  /\ server = "functions" /\ gen.pc = "done"
  /\ gen.optimisation = "optimised" /\ gen.threw = "python"
  /\ gen.options = "array"
  /\ \E i \in 1..Len(gen.used) :
       gen.used[i].action = "navigate" /\ gen.used[i].selector = ""
  /\ gen.result = generateFallbackCode

====
